---- MODULE Spec2Model ----
(***************************************************************************)
(* Recurring-transaction engine of BudgetBuddy                             *)
(* (budgetbuddy-backend/src/controllers/recurringController.js):           *)
(* the next-occurrence calculation, the template collections, and the      *)
(* batch processor processRecurringTransactions with its await points.     *)
(***************************************************************************)
EXTENDS Integers, Sequences, FiniteSets, TLC

(***************************************************************************)
(* Bounds                                                                  *)
(***************************************************************************)
MinYear == 2023
MaxYear == 2025
MaxTicks == 30
MaxSweeps == 2
MaxOverlapTicks == 1
MaxFailures == 1
MaxRequests == 1
MaxCrudTicks == 1
MaxCrudSweeps == 1
MaxDays == 3

\* Years outside MinYear..MaxYear that exercise the century rules of the
\* Gregorian calendar (1900 is not a leap year, 2000 is).
CenturyYears == {1899, 1900, 1999, 2000}

(***************************************************************************)
(* Calendar dates as the JavaScript Date object sees them in local time:   *)
(* a date is the integer y*10000 + (m+1)*100 + d, with m the 0-based month *)
(* that getMonth() returns.  Integer order is chronological order.         *)
(***************************************************************************)
NULL == 0

frequencies == {"daily", "weekly", "monthly", "yearly"}

isLeap(year) == (year % 4 = 0 /\ year % 100 # 0) \/ (year % 400 = 0)

DaysInMonth(year, month) ==
    IF month = 1 THEN (IF isLeap(year) THEN 29 ELSE 28)
    ELSE IF month \in {3, 5, 8, 10} THEN 30
    ELSE 31

getFullYear(date) == date \div 10000
getMonth(date) == ((date \div 100) % 100) - 1
getDate(date) == date % 100

\* MakeDay/MakeDate of the Date object: a month outside 0..11 carries into
\* the year, a day outside the month carries into the neighbouring months.
RECURSIVE MakeDate(_, _, _)
MakeDate(year, month, day) ==
    IF month > 11 THEN MakeDate(year + 1, month - 12, day)
    ELSE IF month < 0 THEN MakeDate(year - 1, month + 12, day)
    ELSE IF day < 1 THEN
        IF month = 0 THEN MakeDate(year - 1, 11, day + 31)
        ELSE MakeDate(year, month - 1, day + DaysInMonth(year, month - 1))
    ELSE IF day > DaysInMonth(year, month) THEN
        MakeDate(year, month + 1, day - DaysInMonth(year, month))
    ELSE year * 10000 + (month + 1) * 100 + day

setDate(date, day) == MakeDate(getFullYear(date), getMonth(date), day)
setMonth(date, month) == MakeDate(getFullYear(date), month, getDate(date))
setFullYear(date, year) == MakeDate(year, getMonth(date), getDate(date))

\* The value a thrown `Invalid frequency` error stands for.
InvalidFrequency == -1

\* A monthly step that keeps the overflowed date setMonth produced (no
\* correction back to the end of the intended month).
monthlyNext_noClamp(currentDate) ==
    setMonth(currentDate, getMonth(currentDate) + 1)

monthlyNext(currentDate) ==
    LET originalDay == getDate(currentDate)
        next == setMonth(currentDate, getMonth(currentDate) + 1)
    IN  IF getDate(next) # originalDay THEN setDate(next, 0) ELSE next

\* A yearly step that stays in the same year.
yearlyNext_sameYear(currentDate) ==
    setFullYear(currentDate, getFullYear(currentDate))

yearlyNext(currentDate) ==
    LET next == setFullYear(currentDate, getFullYear(currentDate) + 1)
    IN  IF getMonth(next) = 2 /\ getDate(next) = 29
        THEN (IF ~isLeap(getFullYear(next)) THEN setDate(next, 28) ELSE next)
        ELSE next

calculateNextDate(currentDate, frequency) ==
    CASE frequency = "daily" -> setDate(currentDate, getDate(currentDate) + 1)
      [] frequency = "weekly" -> setDate(currentDate, getDate(currentDate) + 7)
      [] frequency = "monthly" -> monthlyNext(currentDate)
      [] frequency = "yearly" -> yearlyNext(currentDate)
      [] OTHER -> InvalidFrequency

Years == (MinYear..MaxYear) \cup CenturyYears

\* Every calendar date of the years under consideration.
Dates ==
    { y * 10000 + (m + 1) * 100 + d :
        <<y, m, d>> \in { t \in Years \X (0..11) \X (1..31) :
                            t[3] <= DaysInMonth(t[1], t[2]) } }

(***************************************************************************)
(* State                                                                   *)
(***************************************************************************)
VARIABLES
    calcDate, calcFreq, calcNext,       \* the calculator on its own
    clock, ticks,                       \* the server's calendar day
    recurringExpense, recurringIncome,  \* template collections, by id
    expense, income,                    \* transaction records, in creation order
    pc, today, dueExpenses, dueIncomes, remaining, recurring,
    expensesCreated, incomesCreated, response,
                                        \* one processRecurringTransactions call per caller
    sweeps, failures,                   \* counters that bound the behaviours
    reply, requests,                    \* the last answered API request, their count
    advanced, failedAt, handled, dueAtStart, beforeSweep, rerun, quiet
                                        \* history of what the calls did

calcVars == <<calcDate, calcFreq, calcNext>>
timeVars == <<clock, ticks>>
templateVars == <<recurringExpense, recurringIncome>>
recordVars == <<expense, income>>
callVars == <<pc, today, dueExpenses, dueIncomes, remaining, recurring,
              expensesCreated, incomesCreated, response>>
boundVars == <<sweeps, failures>>
apiVars == <<reply, requests>>
historyVars == <<advanced, failedAt, handled, dueAtStart, beforeSweep, rerun,
                 quiet>>

vars == <<calcVars, timeVars, templateVars, recordVars, callVars, boundVars,
          apiVars, historyVars>>

\* The two callers of POST /api/recurring/process: the cron job of
\* recurringScheduler.js and a manual request.
Callers == {"cron", "manual"}

ExpenseIds == {"e1", "e2"}
IncomeIds == {"i1"}
NoTemplate == "none"

StartClock == MakeDate(2025, 0, 31)

InFlight == {"expenses", "expenseAdvance", "incomes", "incomeAdvance"}

(***************************************************************************)
(* Initial states                                                          *)
(***************************************************************************)
\* What createRecurringExpense stores: nextDate = startDate, isActive = true.
NewRecurringExpense(id, userId, frequency, startDate, endDate) ==
    [id |-> id, userId |-> userId, amount |-> 100,
     description |-> "rent", category |-> "Housing",
     frequency |-> frequency, startDate |-> startDate, nextDate |-> startDate,
     endDate |-> endDate, isActive |-> TRUE]

\* What createRecurringIncome stores.
NewRecurringIncome(id, userId, frequency, startDate, endDate) ==
    [id |-> id, userId |-> userId, amount |-> 500, source |-> "salary",
     frequency |-> frequency, startDate |-> startDate, nextDate |-> startDate,
     endDate |-> endDate, isActive |-> TRUE]

NoRecurring == [id |-> NoTemplate]
NoResponse == [status |-> 0]
NoSnapshot == [expenses |-> 0, incomes |-> 0]
NoBody == [none |-> TRUE]
NoReply == [op |-> "none", status |-> 0]

\* End dates a template of the initial store may carry: none, or the day
\* after its start date (create accepts an end date only after the start).
InitEndDates == {NULL, setDate(StartClock, getDate(StartClock) + 1)}

CallsAtRest ==
    /\ pc = [p \in Callers |-> "idle"]
    /\ today = [p \in Callers |-> NULL]
    /\ dueExpenses = [p \in Callers |-> {}]
    /\ dueIncomes = [p \in Callers |-> {}]
    /\ remaining = [p \in Callers |-> {}]
    /\ recurring = [p \in Callers |-> NoRecurring]
    /\ expensesCreated = [p \in Callers |-> 0]
    /\ incomesCreated = [p \in Callers |-> 0]
    /\ response = [p \in Callers |-> NoResponse]
    /\ sweeps = 0
    /\ failures = 0
    /\ reply = NoReply
    /\ requests = 0
    /\ failedAt = [p \in Callers |-> NoTemplate]
    /\ handled = [p \in Callers |-> {}]
    /\ dueAtStart = [p \in Callers |-> {}]
    /\ beforeSweep = [p \in Callers |-> NoSnapshot]
    /\ rerun = [p \in Callers |-> FALSE]
    /\ quiet = FALSE

\* The store holds templates as their owners created them with start date
\* StartClock: e1 of one of the given frequencies with or without an end
\* date, e2 daily without end date, i1 monthly with or without an end date.
\* No sweep has run yet.
InitStore(e1Frequencies) ==
    /\ calcDate = StartClock /\ calcFreq = "daily" /\ calcNext = NULL
    /\ ticks = 0
    /\ \E f \in e1Frequencies, e \in InitEndDates :
         recurringExpense =
           [id \in ExpenseIds |->
              IF id = "e1" THEN NewRecurringExpense(id, "u1", f, StartClock, e)
              ELSE NewRecurringExpense(id, "u2", "daily", StartClock, NULL)]
    /\ \E e \in InitEndDates :
         recurringIncome =
           [id \in IncomeIds |->
              NewRecurringIncome(id, "u1", "monthly", StartClock, e)]
    /\ expense = <<>>
    /\ income = <<>>
    /\ advanced = [id \in ExpenseIds \cup IncomeIds |-> 0]
    /\ CallsAtRest

\* The server comes up on the templates' start date.
InitSolo == InitStore(frequencies) /\ clock = StartClock

\* The server comes up two days after the templates' start date.
Init ==
    /\ InitStore({"daily", "monthly"})
    /\ clock = setDate(StartClock, getDate(StartClock) + 2)

(***************************************************************************)
(* The recurrence calculator on its own: the input is any calendar date    *)
(* and any frequency, the action applies calculateNextDate.                *)
(***************************************************************************)
InitCalc ==
    /\ calcDate \in Dates
    /\ calcFreq \in frequencies
    /\ calcNext = NULL
    /\ clock = StartClock
    /\ ticks = 0
    /\ recurringExpense = <<>>
    /\ recurringIncome = <<>>
    /\ expense = <<>>
    /\ income = <<>>
    /\ advanced = <<>>
    /\ CallsAtRest

Calculate ==
    /\ calcNext = NULL
    /\ calcNext' = calculateNextDate(calcDate, calcFreq)
    /\ UNCHANGED <<apiVars, calcDate, calcFreq, timeVars, templateVars, recordVars,
                   callVars, boundVars, historyVars>>

NextCalc == Calculate

SpecCalc == InitCalc /\ [][NextCalc]_vars

(***************************************************************************)
(* processRecurringTransactions, one action per awaited store call         *)
(***************************************************************************)
\* where: { isActive: true, nextDate: { lte: today } }
IsDue(template, day) == template.isActive /\ template.nextDate <= day

\* The same query without the nextDate condition.
FindDue_anyActive(collection, day) ==
    { collection[id] : id \in { i \in DOMAIN collection : collection[i].isActive } }

\* The same query without the isActive condition.
FindDue_ignoreActive(collection, day) ==
    { collection[id] : id \in { i \in DOMAIN collection : collection[i].nextDate <= day } }

FindDue(collection, day) ==
    { collection[id] : id \in { i \in DOMAIN collection : IsDue(collection[i], day) } }

\* The expiry test against the template's own nextDate instead of today.
HasExpired_byNextDate(template, day) ==
    template.endDate # NULL /\ template.endDate < template.nextDate

\* The expiry test with the end date itself counted as passed.
HasExpired_inclusive(template, day) ==
    template.endDate # NULL /\ template.endDate <= day

\* The loop without its expiry test.
HasExpired_never(template, day) == FALSE

\* if (recurring.endDate && recurring.endDate < today)
HasExpired(template, day) == template.endDate # NULL /\ template.endDate < day

\* The record dated with the template's start date instead of its nextDate.
ExpenseRecord_datedStart(template) ==
    [userId |-> template.userId, amount |-> template.amount,
     description |-> template.description, category |-> template.category,
     date |-> template.startDate, isRecurring |-> TRUE,
     recurringId |-> template.id]

\* data of prisma.expense.create
ExpenseRecord(template) ==
    [userId |-> template.userId, amount |-> template.amount,
     description |-> template.description, category |-> template.category,
     date |-> template.nextDate, isRecurring |-> TRUE,
     recurringId |-> template.id]

\* data of prisma.income.create
IncomeRecord(template) ==
    [userId |-> template.userId, amount |-> template.amount,
     source |-> template.source, date |-> template.nextDate,
     isRecurring |-> TRUE, recurringId |-> template.id]

\* The closing update with the next date counted from the template's start
\* date instead of the occurrence just generated.
AdvanceData_fromStartDate(template) ==
    LET nextDate == calculateNextDate(template.startDate, template.frequency)
        shouldDeactivate == template.endDate # NULL /\ nextDate > template.endDate
    IN  [nextDate |-> nextDate, isActive |-> ~shouldDeactivate]

\* The closing update deactivating already when the next date is the end
\* date itself.
AdvanceData_inclusiveEnd(template) ==
    LET nextDate == calculateNextDate(template.nextDate, template.frequency)
        shouldDeactivate == template.endDate # NULL /\ nextDate >= template.endDate
    IN  [nextDate |-> nextDate, isActive |-> ~shouldDeactivate]

\* The closing update writing the amount as well.
AdvanceData_resetAmount(template) ==
    LET nextDate == calculateNextDate(template.nextDate, template.frequency)
        shouldDeactivate == template.endDate # NULL /\ nextDate > template.endDate
    IN  [nextDate |-> nextDate, isActive |-> ~shouldDeactivate, amount |-> 0]

\* data of the closing update: { nextDate, isActive: !shouldDeactivate },
\* both computed from the template as the sweep read it.
AdvanceData(template) ==
    LET nextDate == calculateNextDate(template.nextDate, template.frequency)
        shouldDeactivate == template.endDate # NULL /\ nextDate > template.endDate
    IN  [nextDate |-> nextDate, isActive |-> ~shouldDeactivate]

\* prisma.<model>.update({ where: { id }, data })
UpdateById(collection, id, data) ==
    [collection EXCEPT ![id] =
        [f \in DOMAIN collection[id] |->
            IF f \in DOMAIN data THEN data[f] ELSE collection[id][f]]]

\* The trigger firing only while the previous call has not failed.
Start_onlyAfterSuccess(p) ==
    /\ pc[p] \in {"idle", "done"}
    /\ sweeps < MaxSweeps
    /\ sweeps' = sweeps + 1
    /\ today' = [today EXCEPT ![p] = clock]
    /\ LET due == FindDue(recurringExpense, clock)
       IN  /\ dueExpenses' = [dueExpenses EXCEPT ![p] = due]
           /\ remaining' = [remaining EXCEPT ![p] = due]
    /\ dueIncomes' = [dueIncomes EXCEPT ![p] = {}]
    /\ recurring' = [recurring EXCEPT ![p] = NoRecurring]
    /\ expensesCreated' = [expensesCreated EXCEPT ![p] = 0]
    /\ incomesCreated' = [incomesCreated EXCEPT ![p] = 0]
    /\ response' = [response EXCEPT ![p] = NoResponse]
    /\ pc' = [pc EXCEPT ![p] = "expenses"]
    /\ failedAt' = [failedAt EXCEPT ![p] = NoTemplate]
    /\ handled' = [handled EXCEPT ![p] = {}]
    /\ dueAtStart' = [dueAtStart EXCEPT ![p] =
          { t.id : t \in FindDue(recurringExpense, clock) }
          \cup { t.id : t \in FindDue(recurringIncome, clock) }]
    /\ beforeSweep' = [beforeSweep EXCEPT ![p] =
          [recurringExpense |-> recurringExpense,
           recurringIncome |-> recurringIncome,
           expenses |-> Len(expense), incomes |-> Len(income)]]
    /\ rerun' = [rerun EXCEPT ![p] = quiet]
    /\ quiet' = FALSE
    /\ UNCHANGED <<apiVars, calcVars, timeVars, templateVars, recordVars, failures,
                   advanced>>

\* The sweep enters the handler: today is fixed, the due expense templates
\* are read.
Start(p) ==
    /\ pc[p] \notin InFlight
    /\ sweeps < MaxSweeps
    /\ sweeps' = sweeps + 1
    /\ today' = [today EXCEPT ![p] = clock]
    /\ LET due == FindDue(recurringExpense, clock)
       IN  /\ dueExpenses' = [dueExpenses EXCEPT ![p] = due]
           /\ remaining' = [remaining EXCEPT ![p] = due]
    /\ dueIncomes' = [dueIncomes EXCEPT ![p] = {}]
    /\ recurring' = [recurring EXCEPT ![p] = NoRecurring]
    /\ expensesCreated' = [expensesCreated EXCEPT ![p] = 0]
    /\ incomesCreated' = [incomesCreated EXCEPT ![p] = 0]
    /\ response' = [response EXCEPT ![p] = NoResponse]
    /\ pc' = [pc EXCEPT ![p] = "expenses"]
    /\ failedAt' = [failedAt EXCEPT ![p] = NoTemplate]
    /\ handled' = [handled EXCEPT ![p] = {}]
    /\ dueAtStart' = [dueAtStart EXCEPT ![p] =
          { t.id : t \in FindDue(recurringExpense, clock) }
          \cup { t.id : t \in FindDue(recurringIncome, clock) }]
    /\ beforeSweep' = [beforeSweep EXCEPT ![p] =
          [recurringExpense |-> recurringExpense,
           recurringIncome |-> recurringIncome,
           expenses |-> Len(expense), incomes |-> Len(income)]]
    /\ rerun' = [rerun EXCEPT ![p] = quiet]
    /\ quiet' = FALSE
    /\ UNCHANGED <<apiVars, calcVars, timeVars, templateVars, recordVars, failures,
                   advanced>>

\* An expense template whose end date has passed is deactivated and skipped.
DeactivateExpiredExpense(p) ==
    /\ pc[p] = "expenses"
    /\ \E r \in remaining[p] :
         /\ HasExpired(r, today[p])
         /\ r.id \in DOMAIN recurringExpense
         /\ recurringExpense' =
               UpdateById(recurringExpense, r.id, [isActive |-> FALSE])
         /\ remaining' = [remaining EXCEPT ![p] = @ \ {r}]
         /\ handled' = [handled EXCEPT ![p] = @ \cup {r.id}]
    /\ UNCHANGED <<apiVars, calcVars, timeVars, recurringIncome, recordVars, pc, today,
                   dueExpenses, dueIncomes, recurring, expensesCreated,
                   incomesCreated, response, boundVars, advanced, failedAt,
                   dueAtStart, beforeSweep, rerun, quiet>>

\* The loop body with its two writes in the other order: the template is
\* advanced first, the record is created with it, and the closing update
\* repeats the same data.
CreateExpense_advanceFirst(p) ==
    /\ pc[p] = "expenses"
    /\ \E r \in remaining[p] :
         /\ ~HasExpired(r, today[p])
         /\ r.id \in DOMAIN recurringExpense
         /\ recurringExpense' =
               UpdateById(recurringExpense, r.id, AdvanceData(r))
         /\ expense' = Append(expense, ExpenseRecord(r))
         /\ recurring' = [recurring EXCEPT ![p] = r]
    /\ expensesCreated' = [expensesCreated EXCEPT ![p] = @ + 1]
    /\ pc' = [pc EXCEPT ![p] = "expenseAdvance"]
    /\ UNCHANGED <<apiVars, calcVars, timeVars, recurringIncome, income, today,
                   dueExpenses, dueIncomes, remaining, incomesCreated,
                   response, boundVars, historyVars>>

\* prisma.expense.create for the next due expense template.
CreateExpense(p) ==
    /\ pc[p] = "expenses"
    /\ \E r \in remaining[p] :
         /\ ~HasExpired(r, today[p])
         /\ r.id \in DOMAIN recurringExpense
         /\ expense' = Append(expense, ExpenseRecord(r))
         /\ recurring' = [recurring EXCEPT ![p] = r]
    /\ expensesCreated' = [expensesCreated EXCEPT ![p] = @ + 1]
    /\ pc' = [pc EXCEPT ![p] = "expenseAdvance"]
    /\ UNCHANGED <<apiVars, calcVars, timeVars, templateVars, income, today, dueExpenses,
                   dueIncomes, remaining, incomesCreated, response, boundVars,
                   historyVars>>

\* calculateNextDate throws: the handler's catch answers 500.
Caught(p, id) ==
    /\ pc' = [pc EXCEPT ![p] = "error"]
    /\ response' = [response EXCEPT ![p] = [status |-> 500, success |-> FALSE]]
    /\ failedAt' = [failedAt EXCEPT ![p] = id]
    /\ quiet' = FALSE

\* calculateNextDate and the prisma.recurringExpense.update that closes the
\* processing of one expense template.
AdvanceExpense(p) ==
    /\ pc[p] = "expenseAdvance"
    /\ recurring[p].id \in DOMAIN recurringExpense
    /\ LET r == recurring[p]
           data == AdvanceData(r)
       IN  IF data.nextDate = InvalidFrequency
           THEN /\ Caught(p, r.id)
                /\ UNCHANGED <<templateVars, remaining, advanced, handled>>
           ELSE /\ recurringExpense' = UpdateById(recurringExpense, r.id, data)
                /\ advanced' = [advanced EXCEPT ![r.id] = @ + 1]
                /\ remaining' = [remaining EXCEPT ![p] = @ \ {r}]
                /\ handled' = [handled EXCEPT ![p] = @ \cup {r.id}]
                /\ pc' = [pc EXCEPT ![p] = "expenses"]
                /\ UNCHANGED <<recurringIncome, response, failedAt, quiet>>
    /\ UNCHANGED <<apiVars, calcVars, timeVars, recordVars, today, dueExpenses,
                   dueIncomes, recurring, expensesCreated, incomesCreated,
                   boundVars, dueAtStart, beforeSweep, rerun>>

\* The expense loop is over: the due income templates are read.
FindDueIncomes(p) ==
    /\ pc[p] = "expenses"
    /\ remaining[p] = {}
    /\ LET due == FindDue(recurringIncome, today[p])
       IN  /\ dueIncomes' = [dueIncomes EXCEPT ![p] = due]
           /\ remaining' = [remaining EXCEPT ![p] = due]
    /\ pc' = [pc EXCEPT ![p] = "incomes"]
    /\ UNCHANGED <<apiVars, calcVars, timeVars, templateVars, recordVars, today,
                   dueExpenses, recurring, expensesCreated, incomesCreated,
                   response, boundVars, historyVars>>

\* An income template whose end date has passed is deactivated and skipped.
DeactivateExpiredIncome(p) ==
    /\ pc[p] = "incomes"
    /\ \E r \in remaining[p] :
         /\ HasExpired(r, today[p])
         /\ r.id \in DOMAIN recurringIncome
         /\ recurringIncome' =
               UpdateById(recurringIncome, r.id, [isActive |-> FALSE])
         /\ remaining' = [remaining EXCEPT ![p] = @ \ {r}]
         /\ handled' = [handled EXCEPT ![p] = @ \cup {r.id}]
    /\ UNCHANGED <<apiVars, calcVars, timeVars, recurringExpense, recordVars, pc, today,
                   dueExpenses, dueIncomes, recurring, expensesCreated,
                   incomesCreated, response, boundVars, advanced, failedAt,
                   dueAtStart, beforeSweep, rerun, quiet>>

\* prisma.income.create for the next due income template.
CreateIncome(p) ==
    /\ pc[p] = "incomes"
    /\ \E r \in remaining[p] :
         /\ ~HasExpired(r, today[p])
         /\ r.id \in DOMAIN recurringIncome
         /\ income' = Append(income, IncomeRecord(r))
         /\ recurring' = [recurring EXCEPT ![p] = r]
    /\ incomesCreated' = [incomesCreated EXCEPT ![p] = @ + 1]
    /\ pc' = [pc EXCEPT ![p] = "incomeAdvance"]
    /\ UNCHANGED <<apiVars, calcVars, timeVars, templateVars, expense, today, dueExpenses,
                   dueIncomes, remaining, expensesCreated, response, boundVars,
                   historyVars>>

\* calculateNextDate and the prisma.recurringIncome.update that closes the
\* processing of one income template.
AdvanceIncome(p) ==
    /\ pc[p] = "incomeAdvance"
    /\ recurring[p].id \in DOMAIN recurringIncome
    /\ LET r == recurring[p]
           data == AdvanceData(r)
       IN  IF data.nextDate = InvalidFrequency
           THEN /\ Caught(p, r.id)
                /\ UNCHANGED <<templateVars, remaining, advanced, handled>>
           ELSE /\ recurringIncome' = UpdateById(recurringIncome, r.id, data)
                /\ advanced' = [advanced EXCEPT ![r.id] = @ + 1]
                /\ remaining' = [remaining EXCEPT ![p] = @ \ {r}]
                /\ handled' = [handled EXCEPT ![p] = @ \cup {r.id}]
                /\ pc' = [pc EXCEPT ![p] = "incomes"]
                /\ UNCHANGED <<recurringExpense, response, failedAt, quiet>>
    /\ UNCHANGED <<apiVars, calcVars, timeVars, recordVars, today, dueExpenses,
                   dueIncomes, recurring, expensesCreated, incomesCreated,
                   boundVars, dueAtStart, beforeSweep, rerun>>

\* The response with totalProcessed counting the records created.
Respond_countsCreated(p) ==
    /\ pc[p] = "incomes"
    /\ remaining[p] = {}
    /\ response' = [response EXCEPT ![p] =
          [status |-> 200, success |-> TRUE,
           expensesCreated |-> expensesCreated[p],
           incomesCreated |-> incomesCreated[p],
           totalProcessed |-> expensesCreated[p] + incomesCreated[p]]]
    /\ pc' = [pc EXCEPT ![p] = "done"]
    /\ quiet' = (today[p] = clock /\ \A q \in Callers \ {p} : pc[q] \notin InFlight)
    /\ UNCHANGED <<apiVars, calcVars, timeVars, templateVars, recordVars, today,
                   dueExpenses, dueIncomes, remaining, recurring,
                   expensesCreated, incomesCreated, boundVars, advanced,
                   failedAt, handled, dueAtStart, beforeSweep, rerun>>

\* res.json with the counts.
Respond(p) ==
    /\ pc[p] = "incomes"
    /\ remaining[p] = {}
    /\ response' = [response EXCEPT ![p] =
          [status |-> 200, success |-> TRUE,
           expensesCreated |-> expensesCreated[p],
           incomesCreated |-> incomesCreated[p],
           totalProcessed |->
               Cardinality(dueExpenses[p]) + Cardinality(dueIncomes[p])]]
    /\ pc' = [pc EXCEPT ![p] = "done"]
    /\ quiet' = (today[p] = clock /\ \A q \in Callers \ {p} : pc[q] \notin InFlight)
    /\ UNCHANGED <<apiVars, calcVars, timeVars, templateVars, recordVars, today,
                   dueExpenses, dueIncomes, remaining, recurring,
                   expensesCreated, incomesCreated, boundVars, advanced,
                   failedAt, handled, dueAtStart, beforeSweep, rerun>>

\* The template whose store call is the next one of the sweep: the one
\* between its create and its update, else any one still waiting in the loop
\* (none when the next call is a findMany or the response).
NextTemplates(p) ==
    IF pc[p] \in {"expenseAdvance", "incomeAdvance"} THEN {recurring[p].id}
    ELSE IF remaining[p] # {} THEN { r.id : r \in remaining[p] }
    ELSE {NoTemplate}

\* The awaited store call rejects (a write error, the store unreachable):
\* control passes to the handler's catch, which answers 500.
StoreError(p) ==
    /\ pc[p] \in InFlight
    /\ failures < MaxFailures
    /\ failures' = failures + 1
    /\ \E id \in NextTemplates(p) : Caught(p, id)
    /\ UNCHANGED <<apiVars, calcVars, timeVars, templateVars, recordVars, today,
                   dueExpenses, dueIncomes, remaining, recurring,
                   expensesCreated, incomesCreated, sweeps, advanced, handled,
                   dueAtStart, beforeSweep, rerun>>

\* The server process stops while the sweep is waiting on a store call.
Stop(p) ==
    /\ pc[p] \in InFlight
    /\ failures < MaxFailures
    /\ failures' = failures + 1
    /\ pc' = [pc EXCEPT ![p] = "stopped"]
    /\ quiet' = FALSE
    /\ UNCHANGED <<apiVars, calcVars, timeVars, templateVars, recordVars, today,
                   dueExpenses, dueIncomes, remaining, recurring,
                   expensesCreated, incomesCreated, response, sweeps,
                   advanced, failedAt, handled, dueAtStart, beforeSweep,
                   rerun>>

\* Midnight passes.
Tick ==
    /\ ticks < MaxTicks
    /\ ticks' = ticks + 1
    /\ clock' = setDate(clock, getDate(clock) + 1)
    /\ quiet' = FALSE
    /\ UNCHANGED <<apiVars, calcVars, templateVars, recordVars, callVars, boundVars,
                   advanced, failedAt, handled, dueAtStart, beforeSweep,
                   rerun>>

Step(p) ==
    \/ DeactivateExpiredExpense(p)
    \/ CreateExpense(p)
    \/ AdvanceExpense(p)
    \/ FindDueIncomes(p)
    \/ DeactivateExpiredIncome(p)
    \/ CreateIncome(p)
    \/ AdvanceIncome(p)
    \/ Respond(p)

NoSweepInFlight == \A p \in Callers : pc[p] \notin InFlight

(***************************************************************************)
(* The cron job alone, one call after the other; days pass between calls;  *)
(* store calls may fail.                                                   *)
(***************************************************************************)
NextSolo ==
    \/ NoSweepInFlight /\ Tick
    \/ \E p \in {"cron"} :
         \/ Start(p)
         \/ Step(p)
         \/ StoreError(p)
         \/ Stop(p)

SpecSolo == InitSolo /\ [][NextSolo]_vars

(***************************************************************************)
(* The cron job alone, e1 being a monthly template started on the 31st.    *)
(***************************************************************************)
InitMonthEnd == InitStore({"monthly"}) /\ clock = StartClock

SpecMonths == InitMonthEnd /\ [][NextSolo]_vars

(***************************************************************************)
(* The cron job alone over the first few days after the templates' start.  *)
(***************************************************************************)
DayTick == ticks < MaxDays /\ Tick

NextDays ==
    \/ NoSweepInFlight /\ DayTick
    \/ \E p \in {"cron"} :
         \/ Start(p)
         \/ Step(p)
         \/ StoreError(p)
         \/ Stop(p)

SpecDays == InitSolo /\ [][NextDays]_vars

(***************************************************************************)
(* The cron call and a manual call may overlap, as the route allows.       *)
(***************************************************************************)
OverlapTick == ticks < MaxOverlapTicks /\ Tick

Next ==
    \/ OverlapTick
    \/ \E p \in Callers :
         \/ Start(p)
         \/ Step(p)
         \/ StoreError(p)
         \/ Stop(p)

Spec == Init /\ [][Next]_vars

(***************************************************************************)
(* The template and record routes, called by two users, between and during *)
(* the calls of the cron job.                                              *)
(***************************************************************************)
Users == {"u1", "u2"}

Yesterday(date) == setDate(date, getDate(date) - 1)
Tomorrow(date) == setDate(date, getDate(date) + 1)

Store(kind) == IF kind = "expense" THEN recurringExpense ELSE recurringIncome

Pool(kind) == IF kind = "expense" THEN ExpenseIds ELSE IncomeIds

\* A request body of POST /expenses that passes every check.
ValidExpenseBody ==
    [amount |-> 40, description |-> "gym", category |-> "Health",
     frequency |-> "daily", startDate |-> StartClock, endDate |-> NULL]

\* A request body of POST /incomes that passes every check.
ValidIncomeBody ==
    [amount |-> 900, source |-> "bonus", frequency |-> "daily",
     startDate |-> StartClock, endDate |-> Tomorrow(StartClock)]

\* The valid body and its variants, each differing from it in one field; a
\* missing field is 0, "" or NULL, as falsy as undefined is.
CreateVariants(body) ==
    {body,
     [body EXCEPT !.amount = 0],
     [body EXCEPT !.amount = 0 - 5],
     [body EXCEPT !.frequency = ""],
     [body EXCEPT !.frequency = "hourly"],
     [body EXCEPT !.startDate = NULL],
     [body EXCEPT !.endDate = StartClock],
     [body EXCEPT !.endDate = Tomorrow(StartClock)]}

CreateBodies(kind) ==
    IF kind = "expense"
    THEN CreateVariants(ValidExpenseBody)
         \cup {[ValidExpenseBody EXCEPT !.description = ""],
               [ValidExpenseBody EXCEPT !.category = ""]}
    ELSE CreateVariants(ValidIncomeBody)
         \cup {[ValidIncomeBody EXCEPT !.source = ""]}

\* Request bodies of PATCH /expenses/:id and PATCH /incomes/:id: the fields
\* the route documents, and fields it does not.
UpdateBodies ==
    {[isActive |-> FALSE],
     [isActive |-> TRUE],
     [amount |-> 0],
     [amount |-> 250],
     [frequency |-> "hourly"],
     [frequency |-> ""],
     [endDate |-> Tomorrow(Tomorrow(StartClock))],
     [endDate |-> Yesterday(StartClock)],
     [nextDate |-> Yesterday(StartClock)],
     [userId |-> "u2", startDate |-> Tomorrow(StartClock)],
     [id |-> "e2"]}

\* if (!amount || !description || !category || !frequency || !startDate)
MissingFields(kind, body) ==
    \/ body.amount = 0
    \/ kind = "expense" /\ (body.description = "" \/ body.category = "")
    \/ kind = "income" /\ body.source = ""
    \/ body.frequency = ""
    \/ body.startDate = NULL

\* The checks of create with an end date equal to the start date let through.
CreateRejects_endBeforeStartOnly(kind, body) ==
    \/ MissingFields(kind, body)
    \/ body.frequency \notin frequencies
    \/ body.amount <= 0
    \/ body.endDate # NULL /\ body.endDate < body.startDate

\* The four checks of create that answer 400.
CreateRejects(kind, body) ==
    \/ MissingFields(kind, body)
    \/ body.frequency \notin frequencies
    \/ body.amount <= 0
    \/ body.endDate # NULL /\ body.endDate <= body.startDate

\* data of prisma.recurringExpense.create / prisma.recurringIncome.create
CreateData(kind, id, userId, body) ==
    IF kind = "expense"
    THEN [NewRecurringExpense(id, userId, body.frequency, body.startDate,
                              body.endDate)
            EXCEPT !.amount = body.amount,
                   !.description = body.description,
                   !.category = body.category]
    ELSE [NewRecurringIncome(id, userId, body.frequency, body.startDate,
                             body.endDate)
            EXCEPT !.amount = body.amount, !.source = body.source]

Answer(op, kind, status, userId, id, existing, body) ==
    reply' = [op |-> op, kind |-> kind, status |-> status, userId |-> userId,
              id |-> id, existing |-> existing, body |-> body]

Request ==
    /\ requests < MaxRequests
    /\ requests' = requests + 1

\* createRecurringExpense and createRecurringIncome
createRecurring(kind, userId, body) ==
    /\ Request
    /\ IF CreateRejects(kind, body)
       THEN /\ Answer("create", kind, 400, userId, NoTemplate, NoRecurring, body)
            /\ UNCHANGED templateVars
       ELSE \E id \in Pool(kind) \ DOMAIN Store(kind) :
              LET created == CreateData(kind, id, userId, body)
                  stored == [k \in DOMAIN Store(kind) \cup {id} |->
                                IF k = id THEN created ELSE Store(kind)[k]]
              IN  /\ IF kind = "expense"
                     THEN recurringExpense' = stored /\ UNCHANGED recurringIncome
                     ELSE recurringIncome' = stored /\ UNCHANGED recurringExpense
                  /\ Answer("create", kind, 201, userId, id, NoRecurring, body)
    /\ UNCHANGED <<calcVars, timeVars, recordVars, callVars, boundVars,
                   historyVars>>

createRecurringExpense(userId, body) == createRecurring("expense", userId, body)

createRecurringIncome(userId, body) == createRecurring("income", userId, body)

\* prisma.<model>.findUnique({ where: { id } })
FindUnique(collection, id) ==
    IF id \in DOMAIN collection THEN collection[id] ELSE NoRecurring

\* delete updates.userId; delete updates.startDate; delete updates.createdAt
CleanUpdates(updates) ==
    [f \in DOMAIN updates \ {"userId", "startDate", "createdAt"} |-> updates[f]]

\* The checks of update that answer 400.
UpdateRejects(updates) ==
    \/ /\ "frequency" \in DOMAIN updates
       /\ updates.frequency # ""
       /\ updates.frequency \notin frequencies
    \/ "amount" \in DOMAIN updates /\ updates.amount <= 0

\* The collection after the row `id` has been replaced by `row`, stored
\* under the id the row carries.
Rekeyed(collection, id, row) ==
    [k \in (DOMAIN collection \ {id}) \cup {row.id} |->
        IF k = row.id THEN row ELSE collection[k]]

\* Expense_recurringId_fkey ... ON UPDATE CASCADE
CascadeExpenses(records, id, newId) ==
    [i \in 1..Len(records) |->
        IF records[i].recurringId = id
        THEN [records[i] EXCEPT !.recurringId = newId]
        ELSE records[i]]

\* updateRecurringExpense and updateRecurringIncome
updateRecurring(kind, userId, id, updates) ==
    /\ Request
    /\ LET existing == FindUnique(Store(kind), id)
           data == CleanUpdates(updates)
           row == UpdateById(Store(kind), id, data)[id]
       IN  IF existing = NoRecurring
           THEN /\ Answer("update", kind, 404, userId, id, existing, updates)
                /\ UNCHANGED <<templateVars, recordVars>>
           ELSE IF existing.userId # userId
           THEN /\ Answer("update", kind, 403, userId, id, existing, updates)
                /\ UNCHANGED <<templateVars, recordVars>>
           ELSE IF UpdateRejects(updates)
           THEN /\ Answer("update", kind, 400, userId, id, existing, updates)
                /\ UNCHANGED <<templateVars, recordVars>>
           ELSE IF row.id # id /\ row.id \in DOMAIN Store(kind)
           THEN /\ Answer("update", kind, 500, userId, id, existing, updates)
                /\ UNCHANGED <<templateVars, recordVars>>
           ELSE /\ Answer("update", kind, 200, userId, id, existing, updates)
                /\ IF kind = "expense"
                   THEN /\ recurringExpense' = Rekeyed(recurringExpense, id, row)
                        /\ expense' = CascadeExpenses(expense, id, row.id)
                        /\ UNCHANGED <<recurringIncome, income>>
                   ELSE /\ recurringIncome' = Rekeyed(recurringIncome, id, row)
                        /\ UNCHANGED <<recurringExpense, recordVars>>
    /\ UNCHANGED <<calcVars, timeVars, callVars, boundVars, historyVars>>

updateRecurringExpense(userId, id, updates) ==
    updateRecurring("expense", userId, id, updates)

\* The income route is exercised with the bodies that leave the id alone.
updateRecurringIncome(userId, id, updates) ==
    /\ "id" \notin DOMAIN updates
    /\ updateRecurring("income", userId, id, updates)

\* A foreign key that removes the records of a deleted template with it.
DetachRecords_cascade(records, id) ==
    SelectSeq(records, LAMBDA r : r.recurringId # id)

\* Expense_recurringId_fkey ... ON DELETE SET NULL
DetachRecords(records, id) ==
    [i \in 1..Len(records) |->
        IF records[i].recurringId = id
        THEN [records[i] EXCEPT !.recurringId = NoTemplate]
        ELSE records[i]]

\* The records of a deleted income template stay, their back-reference
\* cleared.
DetachIncomes(records, id) ==
    [i \in 1..Len(records) |->
        IF records[i].recurringId = id
        THEN [records[i] EXCEPT !.recurringId = NoTemplate]
        ELSE records[i]]

\* prisma.<model>.delete({ where: { id } })
Without(collection, id) ==
    [k \in DOMAIN collection \ {id} |-> collection[k]]

\* deleteRecurringExpense and deleteRecurringIncome
deleteRecurring(kind, userId, id) ==
    /\ Request
    /\ LET existing == FindUnique(Store(kind), id)
       IN  IF existing = NoRecurring
           THEN /\ Answer("delete", kind, 404, userId, id, existing, NoBody)
                /\ UNCHANGED <<templateVars, recordVars>>
           ELSE IF existing.userId # userId
           THEN /\ Answer("delete", kind, 403, userId, id, existing, NoBody)
                /\ UNCHANGED <<templateVars, recordVars>>
           ELSE /\ Answer("delete", kind, 200, userId, id, existing, NoBody)
                /\ IF kind = "expense"
                   THEN /\ recurringExpense' = Without(recurringExpense, id)
                        /\ expense' = DetachRecords(expense, id)
                        /\ UNCHANGED <<recurringIncome, income>>
                   ELSE /\ recurringIncome' = Without(recurringIncome, id)
                        /\ income' = DetachIncomes(income, id)
                        /\ UNCHANGED <<recurringExpense, expense>>
    /\ UNCHANGED <<calcVars, timeVars, callVars, boundVars, historyVars>>

deleteRecurringExpense(userId, id) == deleteRecurring("expense", userId, id)

deleteRecurringIncome(userId, id) == deleteRecurring("income", userId, id)

\* Request bodies of PUT /api/expenses/:id.
ExpenseBodies == {[amount |-> 7], [amount |-> 0], [date |-> StartClock]}

\* prisma.expense.findFirst({ where: { id, userId } }); a record's id is its
\* position in the table.
FindFirst(records, i, userId) == i \in 1..Len(records) /\ records[i].userId = userId

\* updateExpense of expenseController.js
updateExpense(userId, i, body) ==
    /\ Request
    /\ IF ~FindFirst(expense, i, userId)
       THEN /\ Answer("updateExpense", "expense", 404, userId, NoTemplate,
                      NoRecurring, body)
            /\ UNCHANGED expense
       ELSE IF "amount" \in DOMAIN body /\ body.amount <= 0
       THEN /\ Answer("updateExpense", "expense", 400, userId, NoTemplate,
                      NoRecurring, body)
            /\ UNCHANGED expense
       ELSE /\ Answer("updateExpense", "expense", 200, userId, NoTemplate,
                      NoRecurring, body)
            /\ expense' = UpdateById(expense, i, body)
    /\ UNCHANGED <<calcVars, timeVars, templateVars, income, callVars,
                   boundVars, historyVars>>

\* deleteExpense of expenseController.js
deleteExpense(userId, i) ==
    /\ Request
    /\ IF ~FindFirst(expense, i, userId)
       THEN /\ Answer("deleteExpense", "expense", 404, userId, NoTemplate,
                      NoRecurring, NoBody)
            /\ UNCHANGED expense
       ELSE /\ Answer("deleteExpense", "expense", 200, userId, NoTemplate,
                      NoRecurring, NoBody)
            /\ expense' = [k \in 1..(Len(expense) - 1) |->
                              IF k < i THEN expense[k] ELSE expense[k + 1]]
    /\ UNCHANGED <<calcVars, timeVars, templateVars, income, callVars,
                   boundVars, historyVars>>

\* The next store call of the sweep addresses a template that is no longer
\* stored under the id the sweep read: the call rejects and the handler's
\* catch answers 500.
RecordNotFound(p) ==
    /\ \/ /\ pc[p] = "expenses"
          /\ \E r \in remaining[p] :
                r.id \notin DOMAIN recurringExpense /\ Caught(p, r.id)
       \/ /\ pc[p] = "expenseAdvance"
          /\ recurring[p].id \notin DOMAIN recurringExpense
          /\ Caught(p, recurring[p].id)
       \/ /\ pc[p] = "incomes"
          /\ \E r \in remaining[p] :
                r.id \notin DOMAIN recurringIncome /\ Caught(p, r.id)
       \/ /\ pc[p] = "incomeAdvance"
          /\ recurring[p].id \notin DOMAIN recurringIncome
          /\ Caught(p, recurring[p].id)
    /\ UNCHANGED <<apiVars, calcVars, timeVars, templateVars, recordVars, today,
                   dueExpenses, dueIncomes, remaining, recurring,
                   expensesCreated, incomesCreated, boundVars, advanced,
                   handled, dueAtStart, beforeSweep, rerun>>

\* The store holds one daily expense template of user u1, started on
\* StartClock, active or paused; the server's day is the day after.
InitCrud ==
    /\ calcDate = StartClock /\ calcFreq = "daily" /\ calcNext = NULL
    /\ ticks = 0
    /\ clock = Tomorrow(StartClock)
    /\ \E a \in BOOLEAN :
         recurringExpense =
           [id \in {"e1"} |->
              [NewRecurringExpense(id, "u1", "daily", StartClock, NULL)
                 EXCEPT !.isActive = a]]
    /\ recurringIncome = [id \in {} |-> NoRecurring]
    /\ expense = <<>>
    /\ income = <<>>
    /\ advanced = [id \in ExpenseIds \cup IncomeIds |-> 0]
    /\ CallsAtRest

CrudTick == ticks < MaxCrudTicks /\ Tick

CrudStart(p) == sweeps < MaxCrudSweeps /\ Start(p)

NextCrud ==
    \/ CrudTick
    \/ \E p \in {"cron"} :
         \/ CrudStart(p)
         \/ Step(p)
         \/ RecordNotFound(p)
    \/ \E userId \in Users :
         \/ \E body \in CreateBodies("expense") :
               createRecurringExpense(userId, body)
         \/ \E body \in CreateBodies("income") :
               createRecurringIncome(userId, body)
         \/ \E id \in ExpenseIds, updates \in UpdateBodies :
               updateRecurringExpense(userId, id, updates)
         \/ \E id \in IncomeIds, updates \in UpdateBodies :
               updateRecurringIncome(userId, id, updates)
         \/ \E id \in ExpenseIds : deleteRecurringExpense(userId, id)
         \/ \E id \in IncomeIds : deleteRecurringIncome(userId, id)
         \/ \E i \in 1..(Len(expense) + 1), body \in ExpenseBodies :
               updateExpense(userId, i, body)
         \/ \E i \in 1..(Len(expense) + 1) : deleteExpense(userId, i)

SpecCrud == InitCrud /\ [][NextCrud]_vars

(***************************************************************************)
(* The same routes and the cron job, one operation after the other: a      *)
(* request is served only while no sweep is in flight.                     *)
(***************************************************************************)
AnyRequest ==
    \E userId \in Users :
        \/ \E body \in CreateBodies("expense") :
              createRecurringExpense(userId, body)
        \/ \E body \in CreateBodies("income") :
              createRecurringIncome(userId, body)
        \/ \E id \in ExpenseIds, updates \in UpdateBodies :
              updateRecurringExpense(userId, id, updates)
        \/ \E id \in IncomeIds, updates \in UpdateBodies :
              updateRecurringIncome(userId, id, updates)
        \/ \E id \in ExpenseIds : deleteRecurringExpense(userId, id)
        \/ \E id \in IncomeIds : deleteRecurringIncome(userId, id)
        \/ \E i \in 1..(Len(expense) + 1), body \in ExpenseBodies :
              updateExpense(userId, i, body)
        \/ \E i \in 1..(Len(expense) + 1) : deleteExpense(userId, i)

NextSeq ==
    \/ NoSweepInFlight /\ CrudTick
    \/ NoSweepInFlight /\ AnyRequest
    \/ \E p \in {"cron"} :
         \/ CrudStart(p)
         \/ Step(p)

SpecSeq == InitCrud /\ [][NextSeq]_vars

(***************************************************************************)
(* Properties of the recurrence calculator                                 *)
(***************************************************************************)
Min(a, b) == IF a <= b THEN a ELSE b

\* The calendar month after the month of `date`, as <<year, month>>.
FollowingMonth(date) ==
    IF getMonth(date) = 11 THEN <<getFullYear(date) + 1, 0>>
    ELSE <<getFullYear(date), getMonth(date) + 1>>

\* C6: for every calendar date d, the monthly next occurrence lies in the
\* calendar month immediately following d's month and has d's day-of-month
\* when that day exists there, otherwise the last day of that month.
C6_MonthlyNextClamped ==
    (calcFreq = "monthly" /\ calcNext # NULL) =>
        LET fm == FollowingMonth(calcDate)
        IN  /\ getFullYear(calcNext) = fm[1]
            /\ getMonth(calcNext) = fm[2]
            /\ getDate(calcNext) =
                   Min(getDate(calcDate), DaysInMonth(fm[1], fm[2]))

\* Jan 31 2025 has been advanced to Feb 28 2025, Jan 30 2024 to Feb 29 2024.
C6_Witness ==
    /\ calcFreq = "monthly"
    /\ \/ calcDate = 20250131 /\ calcNext = 20250228
       \/ calcDate = 20240130 /\ calcNext = 20240229

\* C7: for every leap year Y the yearly next occurrence of Feb 29 Y is
\* Feb 28 of Y+1 when Y+1 is not a leap year (Feb 29 when it is), and it is
\* never a date in March.
C7_YearlyFromFeb29 ==
    (/\ calcFreq = "yearly"
     /\ calcNext # NULL
     /\ getMonth(calcDate) = 1
     /\ getDate(calcDate) = 29) =>
        /\ getFullYear(calcNext) = getFullYear(calcDate) + 1
        /\ getMonth(calcNext) = 1
        /\ getDate(calcNext) =
               (IF isLeap(getFullYear(calcDate) + 1) THEN 29 ELSE 28)

\* C8: for every calendar date d other than Feb 29 the yearly next
\* occurrence has the same month and day-of-month as d, one year later.
C8_YearlySameMonthDay ==
    (/\ calcFreq = "yearly"
     /\ calcNext # NULL
     /\ ~(getMonth(calcDate) = 1 /\ getDate(calcDate) = 29)) =>
        /\ getFullYear(calcNext) = getFullYear(calcDate) + 1
        /\ getMonth(calcNext) = getMonth(calcDate)
        /\ getDate(calcNext) = getDate(calcDate)

(***************************************************************************)
(* Properties of the batch processor                                       *)
(***************************************************************************)
TemplateIds == ExpenseIds \cup IncomeIds

\* The stored template with this id, in a pair of collections.
TemplateIn(expenses, incomes, id) ==
    IF id \in ExpenseIds THEN expenses[id] ELSE incomes[id]

Template(id) == TemplateIn(recurringExpense, recurringIncome, id)

\* The template as it stood when the sweep of caller p began.
TemplateBefore(p, id) ==
    TemplateIn(beforeSweep[p].recurringExpense, beforeSweep[p].recurringIncome, id)

\* The records of a collection, from position `from` on, that refer to id.
RecordsOf(records, from, id) ==
    SelectSeq(SubSeq(records, from, Len(records)),
              LAMBDA r : r.recurringId = id)

\* All records generated for a template.
Generated(id) ==
    IF id \in ExpenseIds THEN RecordsOf(expense, 1, id)
    ELSE RecordsOf(income, 1, id)

\* The records the current sweep of caller p generated for a template.
GeneratedBy(p, id) ==
    IF id \in ExpenseIds
    THEN RecordsOf(expense, beforeSweep[p].expenses + 1, id)
    ELSE RecordsOf(income, beforeSweep[p].incomes + 1, id)

BetweenCreateAndUpdate(p) == pc[p] \in {"expenseAdvance", "incomeAdvance"}

\* C1: per-template atomicity.  Whenever no sweep is between the create and
\* the update of a template, also after a store failure or a stop, the
\* number of records generated for a template equals the number of times
\* its nextDate was advanced.
C1_RecordIffAdvance ==
    (\A p \in Callers : ~BetweenCreateAndUpdate(p)) =>
        \A id \in TemplateIds : Len(Generated(id)) = advanced[id]

NoDuplicateIn(records) ==
    \A i, j \in 1..Len(records) :
        (i # j /\ records[i].recurringId = records[j].recurringId)
            => records[i].date # records[j].date

\* C2: when two sweeps run concurrently and no store call fails, no two
\* generated records share the same template and the same occurrence date.
C2_NoDoubleGeneration ==
    failures = 0 => (NoDuplicateIn(expense) /\ NoDuplicateIn(income))

C4_FailureIsolation ==
    \A p \in Callers :
        (pc[p] = "error" /\ failedAt[p] # NoTemplate) =>
            (dueAtStart[p] \ {failedAt[p]}) \subseteq handled[p]

\* C5: when processing one template fails inside a sweep, the template is
\* left active with the nextDate it had when the sweep began, so that a
\* following sweep selects it as due again.
C5_FailedTemplateStillDue ==
    \A p \in Callers :
        (pc[p] = "error" /\ failedAt[p] # NoTemplate) =>
            LET t == Template(failedAt[p])
            IN  /\ t.isActive
                /\ t.nextDate = TemplateBefore(p, failedAt[p]).nextDate
                /\ IsDue(t, clock)

\* The update that closes e1 failed after its record had been created.
C5_Witness ==
    /\ pc["cron"] = "error"
    /\ failedAt["cron"] = "e1"
    /\ Len(GeneratedBy("cron", "e1")) = 1
    /\ recurringExpense["e1"].nextDate = StartClock

\* The monthly expense template anchored on 2025-01-31 without end date.
JanuaryTemplate == NewRecurringExpense("e1", "u1", "monthly", 20250131, NULL)

C10_ReturnsToMonthEnd ==
    \A id \in ExpenseIds :
        LET t == recurringExpense[id]
        IN  (t.frequency = "monthly" /\ getDate(t.startDate) = 31) =>
                getDate(t.nextDate) =
                    DaysInMonth(getFullYear(t.nextDate), getMonth(t.nextDate))

(***************************************************************************)
(* Expiry                                                                  *)
(***************************************************************************)
\* C11: every due template whose end date is set and lies before the day of
\* the sweep is deactivated by a completed sweep, gets no record in it and
\* keeps its nextDate, whether or not that nextDate is on or before the end
\* date.
C11_ExpiredIsDeactivatedOnly ==
    \A p \in Callers :
        pc[p] = "done" =>
            \A id \in TemplateIds :
                LET before == TemplateBefore(p, id)
                IN  (/\ before.isActive
                     /\ before.nextDate <= today[p]
                     /\ before.endDate # NULL
                     /\ before.endDate < today[p]) =>
                        /\ Template(id) = [before EXCEPT !.isActive = FALSE]
                        /\ Len(GeneratedBy(p, id)) = 0

\* e1 was due on or before its end date, the sweep ran after the end date:
\* it is inactive, has no record and its nextDate is where it was.
C11_Witness ==
    /\ pc["cron"] = "done"
    /\ TemplateBefore("cron", "e1").isActive
    /\ TemplateBefore("cron", "e1").nextDate <= TemplateBefore("cron", "e1").endDate
    /\ TemplateBefore("cron", "e1").endDate < today["cron"]
    /\ ~recurringExpense["e1"].isActive
    /\ recurringExpense["e1"].nextDate = TemplateBefore("cron", "e1").nextDate
    /\ Len(Generated("e1")) = 0

\* C12 (as stated): whenever a completed sweep processed a due template
\* whose nextDate equalled its end date, it generated exactly one record
\* dated nextDate and left the template inactive.
C12_FinalOccurrenceAlways ==
    \A p \in Callers :
        pc[p] = "done" =>
            \A id \in TemplateIds :
                LET before == TemplateBefore(p, id)
                    new == GeneratedBy(p, id)
                IN  (IsDue(before, today[p]) /\ before.nextDate = before.endDate) =>
                        /\ Len(new) = 1
                        /\ new[1].date = before.nextDate
                        /\ ~Template(id).isActive

\* C12 (amended): a due template whose nextDate equals its end date gets
\* exactly one final record dated nextDate, and is deactivated by the
\* closing update, when the sweep runs on that very day; a sweep that runs
\* on a later day deactivates it without a record.  Either way it is
\* inactive afterwards, so the following occurrence never fires.
C12_FinalOccurrenceOnTheDay ==
    \A p \in Callers :
        pc[p] = "done" =>
            \A id \in TemplateIds :
                LET before == TemplateBefore(p, id)
                    new == GeneratedBy(p, id)
                IN  (IsDue(before, today[p]) /\ before.nextDate = before.endDate) =>
                        /\ ~Template(id).isActive
                        /\ IF today[p] = before.endDate
                           THEN /\ Len(new) = 1
                                /\ new[1].date = before.nextDate
                                /\ Template(id).nextDate > before.endDate
                           ELSE /\ Len(new) = 0
                                /\ Template(id).nextDate = before.nextDate

\* e1 (daily) reached its end date, the sweep of that day generated the
\* final record and deactivated it.
C12_Witness ==
    /\ pc["cron"] = "done"
    /\ TemplateBefore("cron", "e1").isActive
    /\ TemplateBefore("cron", "e1").nextDate = TemplateBefore("cron", "e1").endDate
    /\ today["cron"] = TemplateBefore("cron", "e1").endDate
    /\ Len(GeneratedBy("cron", "e1")) = 1
    /\ GeneratedBy("cron", "e1")[1].date = today["cron"]
    /\ ~recurringExpense["e1"].isActive

(***************************************************************************)
(* Generated records                                                       *)
(***************************************************************************)
\* C20: every record a sweep creates is dated with the nextDate of the
\* template as the sweep read it, copies its amount and descriptor
\* (description and category, or source), is flagged isRecurring, refers
\* back to the template's id and has the template's owner; and records are
\* created by no other step of a sweep.
C20_GeneratedRecordContent ==
    [][/\ \A p \in Callers :
            /\ (pc[p] = "expenses" /\ pc'[p] = "expenseAdvance") =>
                  LET read == recurring'[p]
                      new == expense'[Len(expense')]
                  IN  /\ read \in dueExpenses[p]
                      /\ expense' = Append(expense, new)
                      /\ new.date = read.nextDate
                      /\ new.amount = read.amount
                      /\ new.description = read.description
                      /\ new.category = read.category
                      /\ new.isRecurring
                      /\ new.recurringId = read.id
                      /\ new.userId = read.userId
            /\ (pc[p] = "incomes" /\ pc'[p] = "incomeAdvance") =>
                  LET read == recurring'[p]
                      new == income'[Len(income')]
                  IN  /\ read \in dueIncomes[p]
                      /\ income' = Append(income, new)
                      /\ new.date = read.nextDate
                      /\ new.amount = read.amount
                      /\ new.source = read.source
                      /\ new.isRecurring
                      /\ new.recurringId = read.id
                      /\ new.userId = read.userId
       /\ Len(expense') > Len(expense) =>
            \E p \in Callers : pc[p] = "expenses" /\ pc'[p] = "expenseAdvance"
       /\ Len(income') > Len(income) =>
            \E p \in Callers : pc[p] = "incomes" /\ pc'[p] = "incomeAdvance"
      ]_vars

\* A sweep has just created an expense record for an occurrence that lies
\* before the day of the sweep.
C20_Witness ==
    \E p \in Callers :
        /\ pc[p] = "expenseAdvance"
        /\ Len(expense) > 0
        /\ expense[Len(expense)].recurringId = recurring[p].id
        /\ expense[Len(expense)].date = recurring[p].nextDate
        /\ recurring[p].nextDate < today[p]

(***************************************************************************)
(* Template routes                                                         *)
(***************************************************************************)
StoreNext(kind) == IF kind = "expense" THEN recurringExpense' ELSE recurringIncome'

\* The step answers a request of the given kinds.
Answers(ops) == requests' # requests /\ reply'.op \in ops

\* C13: a sweep selects exactly the active templates whose nextDate is not
\* after its day, so an inactive template is never selected however old its
\* nextDate; a record is created only for a selected template and dated
\* with the nextDate selected; and an update that sets isActive back to
\* true changes nothing else of the template, its nextDate included.
C13_PauseResume ==
    [][/\ \A p \in Callers :
            /\ (pc[p] \notin InFlight /\ pc'[p] = "expenses") =>
                  \A id \in DOMAIN recurringExpense :
                      (recurringExpense[id] \in dueExpenses'[p])
                          <=> (/\ recurringExpense[id].isActive
                               /\ recurringExpense[id].nextDate <= clock)
            /\ (pc[p] = "expenses" /\ pc'[p] = "incomes") =>
                  \A id \in DOMAIN recurringIncome :
                      (recurringIncome[id] \in dueIncomes'[p])
                          <=> (/\ recurringIncome[id].isActive
                               /\ recurringIncome[id].nextDate <= today[p])
            /\ (pc[p] = "expenses" /\ pc'[p] = "expenseAdvance") =>
                  /\ recurring'[p] \in dueExpenses[p]
                  /\ recurring'[p].isActive
                  /\ expense'[Len(expense')].date = recurring'[p].nextDate
            /\ (pc[p] = "incomes" /\ pc'[p] = "incomeAdvance") =>
                  /\ recurring'[p] \in dueIncomes[p]
                  /\ recurring'[p].isActive
                  /\ income'[Len(income')].date = recurring'[p].nextDate
       /\ (/\ Answers({"update"})
           /\ reply'.status = 200
           /\ reply'.body = [isActive |-> TRUE]) =>
              /\ reply'.existing = Store(reply'.kind)[reply'.id]
              /\ StoreNext(reply'.kind)[reply'.id] =
                     [reply'.existing EXCEPT !.isActive = TRUE]
      ]_vars

\* A paused template, a day or more behind, was resumed and a sweep of a
\* later day generated a record for it, dated with the nextDate it had kept.
C13_Witness ==
    /\ reply.op = "update"
    /\ reply.status = 200
    /\ reply.body = [isActive |-> TRUE]
    /\ ~reply.existing.isActive
    /\ pc["cron"] = "done"
    /\ reply.existing.nextDate < today["cron"]
    /\ \E i \in 1..Len(expense) :
          /\ expense[i].recurringId = reply.id
          /\ expense[i].date = reply.existing.nextDate

\* The fields of a record that deleting its template leaves alone, the
\* back-reference aside.
SameButReference(old, new) ==
    /\ DOMAIN new = DOMAIN old
    /\ \A f \in DOMAIN old \ {"recurringId"} : new[f] = old[f]

\* The records after the template `id` was deleted: all of them still
\* there, unchanged but for the back-reference of the template's own
\* records, which is cleared or left dangling.
RecordsKept(old, new, id) ==
    /\ Len(new) = Len(old)
    /\ \A i \in 1..Len(old) :
          /\ SameButReference(old[i], new[i])
          /\ IF old[i].recurringId = id
             THEN new[i].recurringId \in {NoTemplate, id}
             ELSE new[i].recurringId = old[i].recurringId

\* C14: a successful delete of a template removes that template and nothing
\* else from the store, keeps every record with amount, date, descriptor
\* and owner unchanged, the back-reference of its own records cleared; and
\* editing or deleting an expense record changes no template.
C14_DeletionIndependence ==
    [][/\ (Answers({"delete"}) /\ reply'.status = 200) =>
            LET id == reply'.id
                before == Store(reply'.kind)
                after == StoreNext(reply'.kind)
            IN  /\ id \in DOMAIN before
                /\ DOMAIN after = DOMAIN before \ {id}
                /\ \A k \in DOMAIN after : after[k] = before[k]
                /\ IF reply'.kind = "expense"
                   THEN /\ recurringIncome' = recurringIncome
                        /\ RecordsKept(expense, expense', id)
                        /\ income' = income
                   ELSE /\ recurringExpense' = recurringExpense
                        /\ RecordsKept(income, income', id)
                        /\ expense' = expense
       /\ Answers({"updateExpense", "deleteExpense"}) =>
            /\ recurringExpense' = recurringExpense
            /\ recurringIncome' = recurringIncome
      ]_vars

\* The template of the last request was deleted by its owner; a record a
\* sweep had generated from it is still there, its back-reference cleared.
C14_Witness ==
    /\ reply.op = "delete"
    /\ reply.status = 200
    /\ reply.id \notin DOMAIN Store(reply.kind)
    /\ \E i \in 1..Len(expense) :
          /\ expense[i].isRecurring
          /\ expense[i].recurringId = NoTemplate
          /\ expense[i].userId = reply.existing.userId
          /\ expense[i].amount = reply.existing.amount
          /\ expense[i].date = reply.existing.startDate

\* C15: an update or delete addressed to a template of another user is
\* answered as one addressed to an id that is not stored: 404.
C15_ForeignLooksMissing ==
    (/\ reply.op \in {"update", "delete"}
     /\ reply.existing # NoRecurring
     /\ reply.existing.userId # reply.userId) => reply.status = 404

\* C16: no update request changes the set of stored ids, nor the startDate
\* or the userId stored under an id.
C16_UpdateKeepsIdentity ==
    [][Answers({"update"}) =>
          /\ DOMAIN recurringExpense' = DOMAIN recurringExpense
          /\ DOMAIN recurringIncome' = DOMAIN recurringIncome
          /\ \A id \in DOMAIN recurringExpense :
                /\ recurringExpense'[id].id = id
                /\ recurringExpense'[id].startDate = recurringExpense[id].startDate
                /\ recurringExpense'[id].userId = recurringExpense[id].userId
          /\ \A id \in DOMAIN recurringIncome :
                /\ recurringIncome'[id].id = id
                /\ recurringIncome'[id].startDate = recurringIncome[id].startDate
                /\ recurringIncome'[id].userId = recurringIncome[id].userId
      ]_vars

\* C17: every stored template has no end date or an end date after its
\* start date.
C17_ExpiryAfterStart ==
    /\ \A id \in DOMAIN recurringExpense :
          \/ recurringExpense[id].endDate = NULL
          \/ recurringExpense[id].endDate > recurringExpense[id].startDate
    /\ \A id \in DOMAIN recurringIncome :
          \/ recurringIncome[id].endDate = NULL
          \/ recurringIncome[id].endDate > recurringIncome[id].startDate

\* C18: the nextDate of every stored template is on or after its startDate.
C18_NextNotBeforeStart ==
    /\ \A id \in DOMAIN recurringExpense :
          recurringExpense[id].nextDate >= recurringExpense[id].startDate
    /\ \A id \in DOMAIN recurringIncome :
          recurringIncome[id].nextDate >= recurringIncome[id].startDate

\* C19: a create request changes the store only if its amount is positive,
\* its frequency one of the four and its end date absent or after its start
\* date; it then adds one template, active, with nextDate = startDate, owned
\* by the caller, and is answered 201.  Otherwise it is answered 400 and
\* neither templates nor records change.
C19_CreateValidates ==
    [][Answers({"create"}) =>
          LET body == reply'.body
              id == reply'.id
              before == Store(reply'.kind)
              after == StoreNext(reply'.kind)
              valid == /\ body.amount > 0
                       /\ body.frequency \in {"daily", "weekly", "monthly", "yearly"}
                       /\ (body.endDate = NULL \/ body.endDate > body.startDate)
          IN  /\ expense' = expense
              /\ income' = income
              /\ IF reply'.kind = "expense"
                 THEN recurringIncome' = recurringIncome
                 ELSE recurringExpense' = recurringExpense
              /\ IF after # before
                 THEN /\ valid
                      /\ reply'.status = 201
                      /\ id \notin DOMAIN before
                      /\ DOMAIN after = DOMAIN before \cup {id}
                      /\ \A k \in DOMAIN before : after[k] = before[k]
                      /\ after[id].id = id
                      /\ after[id].isActive
                      /\ after[id].startDate = body.startDate
                      /\ after[id].nextDate = body.startDate
                      /\ after[id].endDate = body.endDate
                      /\ after[id].amount = body.amount
                      /\ after[id].frequency = body.frequency
                      /\ after[id].userId = reply'.userId
                 ELSE reply'.status = 400
      ]_vars

\* A create request with an end date after its start date was stored.
C19_Witness ==
    /\ reply.op = "create"
    /\ reply.status = 201
    /\ reply.body.endDate > reply.body.startDate
    /\ reply.id \in DOMAIN Store(reply.kind)
    /\ Store(reply.kind)[reply.id].isActive
    /\ Store(reply.kind)[reply.id].nextDate = reply.body.startDate
    /\ Store(reply.kind)[reply.id].userId = reply.userId

(***************************************************************************)
(* Scheduling of the sweep                                                 *)
(***************************************************************************)
\* C21: at most one call of processRecurringTransactions is executing at
\* any time.
C21_NoOverlappingSweeps ==
    Cardinality({ p \in Callers : pc[p] \in InFlight }) <= 1

\* C22: after a call that failed (answered 500, or cut off with the server
\* stopping or not answering) the trigger is not disabled: the next tick of
\* the schedule can invoke processRecurringTransactions again.
C22_TriggerSurvivesFailure ==
    (pc["cron"] \in {"error", "stopped"} /\ sweeps < MaxSweeps) =>
        ENABLED Start("cron")

\* A call of the cron job is running although an earlier one failed.
C22_Witness ==
    /\ failures > 0
    /\ sweeps > 1
    /\ pc["cron"] \in InFlight

(***************************************************************************)
(* What one sweep does                                                     *)
(***************************************************************************)
\* The templates a sweep found due: active, with nextDate on or before its
\* day, in the store as it was when the sweep started.
SelectedBy(p) ==
    { id \in TemplateIds : IsDue(TemplateBefore(p, id), today[p]) }

\* Those among them whose end date lay before the day of the sweep.
ExpiredAmong(p) ==
    { id \in SelectedBy(p) :
        /\ TemplateBefore(p, id).endDate # NULL
        /\ TemplateBefore(p, id).endDate < today[p] }

\* C23: a call that completes answers with expensesCreated and
\* incomesCreated equal to the numbers of expense and income records it
\* added and totalProcessed equal to the number of templates it found due,
\* the expired ones included; so the two counts sum to at most
\* totalProcessed, and to exactly totalProcessed iff none had expired.
C23_ResultCounts ==
    \A p \in Callers :
        pc[p] = "done" =>
            /\ response[p].status = 200
            /\ response[p].expensesCreated = Len(expense) - beforeSweep[p].expenses
            /\ response[p].incomesCreated = Len(income) - beforeSweep[p].incomes
            /\ response[p].totalProcessed = Cardinality(SelectedBy(p))
            /\ response[p].expensesCreated + response[p].incomesCreated
                   <= response[p].totalProcessed
            /\ (response[p].expensesCreated + response[p].incomesCreated
                   = response[p].totalProcessed) <=> (ExpiredAmong(p) = {})

\* A completed call that created records and also deactivated an expired
\* template: it reports more templates processed than records created.
C23_Witness ==
    /\ pc["cron"] = "done"
    /\ response["cron"].expensesCreated > 0
    /\ ExpiredAmong("cron") # {}
    /\ response["cron"].totalProcessed >
          response["cron"].expensesCreated + response["cron"].incomesCreated

\* What the rule demands of the template `new` that was `old` before the
\* update closing its processing.
AdvancedOrDeactivated(old, new) ==
    LET candidate == calculateNextDate(old.nextDate, old.frequency)
    IN  /\ new.nextDate = candidate
        /\ new.isActive <=> ~(old.endDate # NULL /\ candidate > old.endDate)

\* C24: the update that follows the generation of a record sets the
\* template's nextDate to calculateNextDate(previous nextDate, frequency)
\* and, in the same write, isActive to false exactly when the end date is
\* set and that new nextDate is after it, to true otherwise.
C24_AdvanceOrDeactivate ==
    [][\A p \in Callers :
          /\ (pc[p] = "expenseAdvance" /\ pc'[p] = "expenses") =>
                /\ expense[Len(expense)].recurringId = recurring[p].id
                /\ AdvancedOrDeactivated(recurringExpense[recurring[p].id],
                                         recurringExpense'[recurring[p].id])
          /\ (pc[p] = "incomeAdvance" /\ pc'[p] = "incomes") =>
                /\ income[Len(income)].recurringId = recurring[p].id
                /\ AdvancedOrDeactivated(recurringIncome[recurring[p].id],
                                         recurringIncome'[recurring[p].id])
      ]_vars

\* In one sweep e1 was advanced past its end date and left inactive while
\* e2, without end date, was advanced and stays active.
C24_Witness ==
    /\ pc["cron"] = "done"
    /\ Len(GeneratedBy("cron", "e1")) = 1
    /\ Len(GeneratedBy("cron", "e2")) = 1
    /\ recurringExpense["e1"].endDate # NULL
    /\ recurringExpense["e1"].nextDate > recurringExpense["e1"].endDate
    /\ ~recurringExpense["e1"].isActive
    /\ recurringExpense["e2"].nextDate > TemplateBefore("cron", "e2").nextDate
    /\ recurringExpense["e2"].isActive

(***************************************************************************)
(* Sweeps and template requests together                                   *)
(***************************************************************************)
\* C25: no step of a sweep sets isActive of a stored inactive template back
\* to true, and none creates a record for a template that is stored
\* inactive.
C25_PauseNotUndone ==
    [][requests' = requests =>
          /\ \A id \in DOMAIN recurringExpense \cap DOMAIN recurringExpense' :
                ~recurringExpense[id].isActive =>
                    /\ ~recurringExpense'[id].isActive
                    /\ ~(/\ Len(expense') > Len(expense)
                         /\ expense'[Len(expense')].recurringId = id)
          /\ \A id \in DOMAIN recurringIncome \cap DOMAIN recurringIncome' :
                ~recurringIncome[id].isActive =>
                    /\ ~recurringIncome'[id].isActive
                    /\ ~(/\ Len(income') > Len(income)
                         /\ income'[Len(income')].recurringId = id)
      ]_vars

\* C26: every record a sweep generates from a template whose end date is
\* set when the record is created is dated on or before that end date.
C26_NoGenerationPastExpiry ==
    [][\A p \in Callers :
          /\ (pc[p] = "expenses" /\ pc'[p] = "expenseAdvance") =>
                LET new == expense'[Len(expense')]
                    template == recurringExpense[new.recurringId]
                IN  template.endDate # NULL => new.date <= template.endDate
          /\ (pc[p] = "incomes" /\ pc'[p] = "incomeAdvance") =>
                LET new == income'[Len(income')]
                    template == recurringIncome[new.recurringId]
                IN  template.endDate # NULL => new.date <= template.endDate
      ]_vars

\* The owner gave the template an end date; the sweep that followed has
\* just generated a record for it, dated on or before that end date.
C26_Witness ==
    /\ reply.op = "update"
    /\ reply.status = 200
    /\ "endDate" \in DOMAIN reply.body
    /\ pc["cron"] = "expenseAdvance"
    /\ recurring["cron"].id = reply.id
    /\ recurring["cron"].endDate # NULL
    /\ recurring["cron"].endDate = reply.body.endDate
    /\ Len(expense) > 0
    /\ expense[Len(expense)].recurringId = reply.id
    /\ expense[Len(expense)].date <= reply.body.endDate

\* The sweeps, in flight, that found the template `id` due.
SweepsOver(id) ==
    { p \in Callers : pc[p] \in InFlight /\ id \in SelectedBy(p) }

\* C27: a step changes a template only in its nextDate and isActive and only
\* while a sweep that found it due is in flight, so a template inactive or
\* not yet due when the sweep read is left as it is; records are only
\* appended, none is changed or removed.
C27_SweepFrame ==
    [][/\ \A id \in TemplateIds :
            LET old == TemplateIn(recurringExpense, recurringIncome, id)
                new == TemplateIn(recurringExpense', recurringIncome', id)
            IN  new # old =>
                    /\ SweepsOver(id) # {}
                    /\ DOMAIN new = DOMAIN old
                    /\ \A f \in DOMAIN old \ {"nextDate", "isActive"} :
                          new[f] = old[f]
       /\ Len(expense') >= Len(expense)
       /\ SubSeq(expense', 1, Len(expense)) = expense
       /\ Len(income') >= Len(income)
       /\ SubSeq(income', 1, Len(income)) = income
      ]_vars

\* The second sweep is over: it advanced the daily e2 and left the monthly
\* i1, not yet due again, as it was.
C27_Witness ==
    /\ pc["cron"] = "done"
    /\ sweeps = 2
    /\ "e2" \in SelectedBy("cron")
    /\ recurringExpense["e2"].nextDate > TemplateBefore("cron", "e2").nextDate
    /\ recurringExpense["e2"].amount = TemplateBefore("cron", "e2").amount
    /\ recurringIncome["i1"].isActive
    /\ "i1" \notin SelectedBy("cron")
    /\ recurringIncome["i1"] = TemplateBefore("cron", "i1")

\* calculateNextDate(d, f) is later than d, for every calendar date and
\* every frequency.
StrictlyLater ==
    \A d \in Dates, f \in frequencies : calculateNextDate(d, f) > d

StrictlyIncreasing(records) ==
    \A i \in 1..(Len(records) - 1) : records[i].date < records[i + 1].date

\* C28: a sweep creates at most one record per template; the date after
\* any calendar date, for any frequency, is strictly later; and as long as
\* no call has failed the records of each template, in the order of their
\* creation by the successive sweeps, have strictly increasing dates.
C28_OnePerSweepStrictlyAdvancing ==
    /\ StrictlyLater
    /\ \A p \in Callers, id \in TemplateIds :
          pc[p] # "idle" => Len(GeneratedBy(p, id)) <= 1
    /\ failures = 0 =>
          \A id \in TemplateIds : StrictlyIncreasing(Generated(id))

\* Two sweeps without failure have each generated one record for the daily
\* e2, the second with a later date than the first.
C28_Witness ==
    /\ failures = 0
    /\ pc["cron"] = "done"
    /\ Len(GeneratedBy("cron", "e2")) = 1
    /\ Len(Generated("e2")) = 2
    /\ Generated("e2")[1].date < Generated("e2")[2].date

\* C29: with one sweep per day and no failure, an active template without
\* end date that is behind the day of the sweep catches up in the end.  The
\* day of the sweep moves on by one day from one sweep to the next, so this
\* asks of every completed sweep that it leave a template that was behind
\* either past the day of the sweep or more than one day further than it
\* was.
C29_BehindTemplateGains ==
    \A p \in Callers :
        (pc[p] = "done" /\ failures = 0) =>
            \A id \in TemplateIds :
                LET before == TemplateBefore(p, id)
                IN  (/\ before.isActive
                     /\ before.endDate = NULL
                     /\ before.nextDate < today[p]) =>
                        \/ Template(id).nextDate > today[p]
                        \/ Template(id).nextDate > Tomorrow(before.nextDate)

\* C30: the frequency of every stored template is one of daily, weekly,
\* monthly, yearly, and no sweep is about to call calculateNextDate with a
\* frequency it rejects.
C30_FrequencyIntegrity ==
    /\ \A id \in DOMAIN recurringExpense :
          recurringExpense[id].frequency \in frequencies
    /\ \A id \in DOMAIN recurringIncome :
          recurringIncome[id].frequency \in frequencies
    /\ \A p \in Callers :
          pc[p] \in {"expenseAdvance", "incomeAdvance"} =>
              recurring[p].frequency \in frequencies
====
